---- MODULE Spec2Model ----
(***************************************************************************)
(* Task-management API (FastAPI + SQLModel): registration, login, bearer   *)
(* token authentication and the per-user task routes.                      *)
(*                                                                         *)
(* Strings are tuples of one-character strings, so that case folding,      *)
(* stripping and the regular expressions are computed character by         *)
(* character.  Time is a natural number of ticks; TicksPerSecond ticks     *)
(* make one second.  A JSON value of a request body is a tuple: a string   *)
(* is its characters, null is Null, true/false are JTrue/JFalse.           *)
(***************************************************************************)
EXTENDS Integers, Sequences, FiniteSets, TLC

VARIABLES schema, clock, users, tasks, nextUser, nextTask, issued, reg, resp,
          toggled, req, pool, checked

vars == <<schema, clock, users, tasks, nextUser, nextTask, issued, reg, resp,
          toggled, req, pool, checked>>

store == <<users, tasks>>

(***************************************************************************)
(* Bounds of the model.                                                    *)
(***************************************************************************)
\* users ever inserted
MaxUsers == 2
\* tasks ever inserted under the specification of all protected routes
MaxTasks == 1
\* tasks ever inserted under the specification of creation and listing
MaxListed == 2
\* largest clock value of the task and registration specifications
MaxClock == 1
\* clock resolution: ticks in one second
TicksPerSecond == 2
\* time scale: seconds in one hour of model time
SecondsPerHour == 1
\* ticks explored one by one after time 0 and on either side of a token's
\* nominal end of life; the time in between passes in one step
ExpirySlack == 2
\* sessions of the pool (pool_size + max_overflow, scaled down) under the
\* specification of the pool
MaxSessions == 1
\* characters of a string handed to a validator
MaxInput == 6

(***************************************************************************)
(* Program constants.                                                      *)
(***************************************************************************)
JWT_EXPIRATION_HOURS == 24
JWT_SECRET == "JWT_SECRET"
TITLE_MAX_LENGTH == 200
DESCRIPTION_MAX_LENGTH == 2000
PASSWORD_MIN_LENGTH == 8
USERNAME_MIN_LENGTH == 3
USERNAME_MAX_LENGTH == 30

(***************************************************************************)
(* Characters and strings.                                                 *)
(***************************************************************************)
UpperSeq == <<"A","B","C","D","E","F","G","H","I","J","K","L","M",
              "N","O","P","Q","R","S","T","U","V","W","X","Y","Z">>
LowerSeq == <<"a","b","c","d","e","f","g","h","i","j","k","l","m",
              "n","o","p","q","r","s","t","u","v","w","x","y","z">>
Upper == {UpperSeq[i] : i \in 1..26}
Lower == {LowerSeq[i] : i \in 1..26}
Digit == {"0","1","2","3","4","5","6","7","8","9"}
Whitespace == {" ", "\t", "\n", "\r"}

\* str.lower() on one character
LowerChar(c) ==
    IF c \in Upper THEN LowerSeq[CHOOSE i \in 1..26 : UpperSeq[i] = c] ELSE c

\* str.lower()
ToLower(s) == [i \in 1..Len(s) |-> LowerChar(s[i])]

\* every character of s is in class
AllIn(s, class) == \A i \in 1..Len(s) : s[i] \in class

\* str.strip() leaves the empty string
IsBlank(s) == AllIn(s, Whitespace)

\* the string a regular expression ending in $ has to match in full: $ also
\* matches just before a newline that ends the string
DollarBodies(s) ==
    {s} \cup (IF Len(s) > 0 /\ s[Len(s)] = "\n"
              THEN {SubSeq(s, 1, Len(s) - 1)} ELSE {})

EmailLocalClass == Upper \cup Lower \cup Digit \cup {".", "_", "%", "+", "-"}
EmailDomainClass == Upper \cup Lower \cup Digit \cup {".", "-"}
EmailTldClass == Upper \cup Lower \cup {"|"}
UsernameClass == Upper \cup Lower \cup Digit \cup {"_"}

\* b matches [A-Za-z0-9._%+-]+@[A-Za-z0-9.-]+\.[A-Z|a-z]{2,} in full
EmailBodyMatch(b) ==
    \E at \in 1..Len(b) :
        /\ b[at] = "@"
        /\ at > 1
        /\ AllIn(SubSeq(b, 1, at - 1), EmailLocalClass)
        /\ \E dot \in (at + 2)..Len(b) :
              /\ b[dot] = "."
              /\ AllIn(SubSeq(b, at + 1, dot - 1), EmailDomainClass)
              /\ Len(b) - dot >= 2
              /\ AllIn(SubSeq(b, dot + 1, Len(b)), EmailTldClass)

validate_email(email) == \E b \in DollarBodies(email) : EmailBodyMatch(b)

validate_username(username) ==
    \E b \in DollarBodies(username) :
        /\ Len(b) >= USERNAME_MIN_LENGTH
        /\ Len(b) <= USERNAME_MAX_LENGTH
        /\ AllIn(b, UsernameClass)

\* a call of a validator: its argument, and its result once it has returned
NoCheck == [fn |-> "none", input |-> <<>>, result |-> FALSE]

\* validate_email(input) is called and returns
CallValidateEmail ==
    /\ checked.fn = "none"
    /\ checked' = [checked EXCEPT !.fn = "validate_email",
                                  !.result = validate_email(checked.input)]
    /\ UNCHANGED <<schema, clock, users, tasks, nextUser, nextTask, issued,
                   reg, resp, toggled, req, pool>>

\* validate_username(input) is called and returns
CallValidateUsername ==
    /\ checked.fn = "none"
    /\ checked' = [checked EXCEPT !.fn = "validate_username",
                                  !.result = validate_username(checked.input)]
    /\ UNCHANGED <<schema, clock, users, tasks, nextUser, nextTask, issued,
                   reg, resp, toggled, req, pool>>

\* the list of violated rules is empty
validate_password(password) ==
    /\ Len(password) >= PASSWORD_MIN_LENGTH
    /\ \E i \in 1..Len(password) : password[i] \in Upper
    /\ \E i \in 1..Len(password) : password[i] \in Lower
    /\ \E i \in 1..Len(password) : password[i] \in Digit

\* bcrypt: the hash carries algorithm, cost, salt and the salted digest; the
\* digest is modelled by the pair it is a function of
hash_password(password, salt) ==
    [alg |-> "2b", cost |-> 12, salt |-> salt, digest |-> <<salt, password>>]

verify_password(password, password_hash) ==
    password_hash.digest = <<password_hash.salt, password>>

(***************************************************************************)
(* Optional results, JSON null, identifiers.                               *)
(***************************************************************************)
\* a function's "no result" and its "result x"
None == <<>>
Some(x) == <<x>>

\* JSON null / SQL NULL / Python None held in a field
Null == <<"null">>
JTrue == <<"true">>
JFalse == <<"false">>

\* str(uuid): the canonical text of identifier id
UuidStr(id) == <<"uuid", id>>

\* UUID(text) succeeds
IsUuidStr(s) == Len(s) = 2 /\ s[1] = "uuid"

\* UUID(text)
ParseUuid(s) == s[2]

(***************************************************************************)
(* The clock.                                                              *)
(***************************************************************************)
\* a clock that can be set back between two readings: a variant the order
\* of the timestamps has to tell apart from ClockSteps
ClockStepsBackwards == -1..1

\* the ticks between two successive readings of datetime.utcnow() in one
\* request: the default factories of created_at and updated_at
ClockSteps == 0..1

(***************************************************************************)
(* Token service.                                                          *)
(***************************************************************************)
\* timedelta(hours=JWT_EXPIRATION_HOURS), in ticks
LifetimeTicks == JWT_EXPIRATION_HOURS * SecondsPerHour * TicksPerSecond

\* jwt.encode turns a datetime claim into whole seconds since the epoch
NumericDate(t) == t \div TicksPerSecond

create_access_token(user_id, email, now) ==
    [kind |-> "jwt",
     key |-> JWT_SECRET,
     payload |-> [sub |-> UuidStr(user_id),
                  email |-> email,
                  exp |-> NumericDate(now + LifetimeTicks),
                  iat |-> NumericDate(now)]]

\* the verification that still accepts a token at the instant of its exp: a
\* variant the expiry of tokens has to tell apart from verify_access_token
verify_access_token_at_exp(token, now) ==
    IF token.kind # "jwt" THEN None
    ELSE IF token.key # JWT_SECRET THEN None
    ELSE IF "exp" \in DOMAIN token.payload
            /\ token.payload.exp * TicksPerSecond < now THEN None
    ELSE Some(token.payload)

\* jwt.decode: the payload, or None for a malformed token, a signature made
\* with another key, or an exp that is not after the current time
verify_access_token(token, now) ==
    IF token.kind # "jwt" THEN None
    ELSE IF token.key # JWT_SECRET THEN None
    ELSE IF "exp" \in DOMAIN token.payload
            /\ token.payload.exp * TicksPerSecond <= now THEN None
    ELSE Some(token.payload)

extract_user_id_from_token(token, now) ==
    LET payload == verify_access_token(token, now) IN
    IF payload = None THEN None
    ELSE IF "sub" \notin DOMAIN payload[1] THEN None
    ELSE IF ~IsUuidStr(payload[1].sub) THEN None
    ELSE Some(ParseUuid(payload[1].sub))

(***************************************************************************)
(* Persistence layer: the users table.                                     *)
(***************************************************************************)
\* select(User).where(User.id == user_id)
UsersById(id) == {u \in users : u.id = id}

\* select(User).where(func.lower(User.email) == email.lower())
UsersByEmailCI(email) == {u \in users : ToLower(u.email) = ToLower(email)}

\* select(User).where(User.username == username)
UsersByUsername(username) == {u \in users : u.username = username}

\* the unique index on the email column: on the column itself in the schema
\* SQLModel.metadata.create_all builds, on LOWER(email) in the migrations
EmailIndexClash(email) ==
    IF schema = "alembic"
    THEN \E u \in users : ToLower(u.email) = ToLower(email)
    ELSE \E u \in users : u.email = email

\* the unique index on username
UsernameIndexClash(username) == \E u \in users : u.username = username

\* the CHECK constraints of the migrations (POSIX ~*: $ is the end of the
\* string) and the VARCHAR lengths
UserChecksHold(email, username) ==
    schema = "alembic" =>
        /\ EmailBodyMatch(email)
        /\ Len(username) >= USERNAME_MIN_LENGTH
        /\ Len(username) <= USERNAME_MAX_LENGTH
        /\ AllIn(username, UsernameClass)

\* the INSERT of a user row passes every constraint of the table
UserInsertOk(email, username) ==
    /\ ~EmailIndexClash(email)
    /\ ~UsernameIndexClash(username)
    /\ UserChecksHold(email, username)

(***************************************************************************)
(* Responses.  type is "ok" for a success body, "http_exception" for the   *)
(* {detail} body of an HTTPException, and the problem type of a            *)
(* ProblemDetails body otherwise.  user is the authenticated caller's id   *)
(* (0 when there is none), task_id the task of the request path (0 when    *)
(* there is none), body a tuple of the returned objects, token the bearer  *)
(* token the request came with (NoToken on the public routes).  resp is    *)
(* the response on its way to the client: NoResponse once the client has   *)
(* received it, and the next step is taken then.                           *)
(***************************************************************************)
NoToken == [kind |-> "none"]

Response(op, user, task_id, status, type, detail, body) ==
    [op |-> op, user |-> user, task_id |-> task_id, status |-> status,
     type |-> type, detail |-> detail, body |-> body, token |-> NoToken]

NoResponse == Response("none", 0, 0, 0, "ok", "", <<>>)

\* the response r to a request that came with this bearer token
Stamp(token, r) == [r EXCEPT !.token = token]

\* the client receives the response
Deliver ==
    /\ resp # NoResponse
    /\ resp' = NoResponse
    /\ UNCHANGED <<schema, checked, toggled, req, pool,
                   clock, users, tasks, nextUser, nextTask, issued,
                   reg>>

\* HTTPException(status_code, detail), re-raised to the framework
HttpError(op, user, task_id, status, detail) ==
    Response(op, user, task_id, status, "http_exception", detail, <<>>)

\* validation_error_handler on a RequestValidationError
RequestInvalid(op, user, task_id, detail) ==
    Response(op, user, task_id, 400, "validation_error", detail, <<>>)

(***************************************************************************)
(* Request schemas of the authentication routes.                           *)
(***************************************************************************)
EmailAtext ==
    Upper \cup Lower \cup Digit \cup
    {"!", "#", "$", "%", "&", "'", "*", "+", "-", "/", "=", "?", "^", "_",
     "{", "|", "}", "~", "."}
EmailLabelClass == Upper \cup Lower \cup Digit \cup {"-", "."}

\* position of the "@" of an address with exactly one "@", else 0
AtPos(e) ==
    IF Cardinality({i \in 1..Len(e) : e[i] = "@"}) = 1
    THEN CHOOSE i \in 1..Len(e) : e[i] = "@" ELSE 0

\* EmailStr accepts the address: one "@", a dot-atom before it, a dotted
\* host name after it
EmailStrOk(e) ==
    LET at == AtPos(e) IN
    /\ at > 1
    /\ Len(e) - at >= 3
    /\ AllIn(SubSeq(e, 1, at - 1), EmailAtext)
    /\ e[1] # "." /\ e[at - 1] # "."
    /\ AllIn(SubSeq(e, at + 1, Len(e)), EmailLabelClass)
    /\ e[at + 1] # "." /\ e[Len(e)] # "."
    /\ \E i \in (at + 2)..(Len(e) - 1) : e[i] = "."

\* the value EmailStr hands to the handler: the host name in lower case
NormalizeEmail(e) ==
    LET at == AtPos(e) IN
    SubSeq(e, 1, at) \o ToLower(SubSeq(e, at + 1, Len(e)))

\* RegisterRequest: EmailStr, the username pattern, the password rules
RegisterRequestOk(body) ==
    /\ EmailStrOk(body.email)
    /\ Len(body.username) >= USERNAME_MIN_LENGTH
    /\ Len(body.username) <= USERNAME_MAX_LENGTH
    /\ validate_username(body.username)
    /\ Len(body.password) >= PASSWORD_MIN_LENGTH
    /\ validate_password(body.password)

\* LoginRequest: EmailStr and any password
LoginRequestOk(body) == EmailStrOk(body.email)

\* the row of the user as the response, no response schema applied: a
\* variant the secrecy of the password hash has to tell apart from
\* UserProfile
UserRow(u) == u

\* UserProfile / RegisterResponse: the public fields of a user
UserProfile(u) ==
    [id |-> u.id, email |-> u.email, username |-> u.username,
     created_at |-> u.created_at]

(***************************************************************************)
(* Inputs of the authentication routes.                                    *)
(***************************************************************************)
EmailAlice == <<"a", "@", "x", ".", "i", "o">>
EmailAliceUpper == <<"A", "@", "x", ".", "i", "o">>
EmailBob == <<"b", "@", "x", ".", "i", "o">>
EmailBang == <<"a", "!", "@", "x", ".", "i", "o">>
EmailNoHost == <<"a", "@", "x">>
NameAnn == <<"a", "n", "n">>
NameBob == <<"b", "o", "b">>
NameShort == <<"a", "b">>
PasswordGood == <<"P", "a", "s", "s", "w", "0", "r", "d">>
PasswordOther == <<"P", "a", "s", "s", "w", "0", "r", "D">>
PasswordWeak == <<"p", "a", "s", "s", "w", "o", "r", "d">>

RegisterBody(email, username, password) ==
    [email |-> email, username |-> username, password |-> password]
RegisterBodies ==
    {RegisterBody(EmailAlice, NameAnn, PasswordGood),
     RegisterBody(EmailAliceUpper, NameBob, PasswordGood),
     RegisterBody(EmailBob, NameAnn, PasswordGood),
     RegisterBody(EmailBang, NameAnn, PasswordGood),
     RegisterBody(EmailNoHost, NameAnn, PasswordGood),
     RegisterBody(EmailAlice, NameShort, PasswordGood),
     RegisterBody(EmailAlice, NameAnn, PasswordWeak)}
LoginBodies ==
    [email : {EmailAlice, EmailAliceUpper, EmailBob, EmailNoHost},
     password : {PasswordGood, PasswordOther}]
Salts == {"salt1"}

\* concurrent register requests
Procs == 1..2
Idle == [pc |-> "idle", email |-> <<>>, username |-> <<>>, password |-> <<>>]

(***************************************************************************)
(* POST /auth/register, one action per database round trip.                *)
(***************************************************************************)
\* request validation, validate_email, check_email_unique
RegisterEmail(p, body) ==
    /\ resp = NoResponse
    /\ reg[p].pc = "idle"
    /\ UNCHANGED <<schema, checked, toggled, req, pool,
                   clock, users, tasks, nextUser, nextTask, issued>>
    /\ IF ~RegisterRequestOk(body)
       THEN /\ resp' = RequestInvalid("register", 0, 0, "body: invalid")
            /\ UNCHANGED reg
       ELSE LET email == NormalizeEmail(body.email) IN
            IF ~validate_email(email)
            THEN /\ resp' = HttpError("register", 0, 0, 400,
                                      "Invalid email format")
                 /\ UNCHANGED reg
            ELSE IF Cardinality(UsersByEmailCI(email)) > 1
            THEN \* scalar_one_or_none raises MultipleResultsFound
                 /\ resp' = HttpError("register", 0, 0, 500,
                                      "Failed to create user account")
                 /\ UNCHANGED reg
            ELSE IF UsersByEmailCI(email) # {}
            THEN /\ resp' = HttpError("register", 0, 0, 400,
                                      "Email already registered")
                 /\ UNCHANGED reg
            ELSE /\ reg' = [reg EXCEPT ![p] =
                              [pc |-> "username", email |-> email,
                               username |-> body.username,
                               password |-> body.password]]
                 /\ UNCHANGED resp

\* validate_username, check_username_unique
RegisterUsername(p) ==
    /\ resp = NoResponse
    /\ reg[p].pc = "username"
    /\ UNCHANGED <<schema, checked, toggled, req, pool,
                   clock, users, tasks, nextUser, nextTask, issued>>
    /\ IF ~validate_username(reg[p].username)
       THEN /\ resp' = HttpError("register", 0, 0, 400,
              "Username must be 3-30 characters and contain only letters, numbers, and underscores")
            /\ reg' = [reg EXCEPT ![p] = Idle]
       ELSE IF Cardinality(UsersByUsername(reg[p].username)) > 1
       THEN /\ resp' = HttpError("register", 0, 0, 500,
                                 "Failed to create user account")
            /\ reg' = [reg EXCEPT ![p] = Idle]
       ELSE IF UsersByUsername(reg[p].username) # {}
       THEN /\ resp' = HttpError("register", 0, 0, 400,
                                 "Username already taken")
            /\ reg' = [reg EXCEPT ![p] = Idle]
       ELSE /\ reg' = [reg EXCEPT ![p].pc = "insert"]
            /\ UNCHANGED resp

\* hash_password, User(...), commit, refresh, RegisterResponse; the two
\* timestamps are two readings of the clock
RegisterInsert(p) ==
    /\ resp = NoResponse
    /\ reg[p].pc = "insert"
    /\ nextUser <= MaxUsers
    /\ reg' = [reg EXCEPT ![p] = Idle]
    /\ UNCHANGED <<schema, checked, toggled, req, pool, tasks, nextTask, issued>>
    /\ \E salt \in Salts, d \in ClockSteps :
         LET new_user == [id |-> nextUser,
                          email |-> reg[p].email,
                          username |-> reg[p].username,
                          password_hash |->
                              hash_password(reg[p].password, salt),
                          created_at |-> clock,
                          updated_at |-> clock + d]
         IN
         /\ clock + d <= MaxClock
         /\ clock' = clock + d
         /\ IF UserInsertOk(new_user.email, new_user.username)
            THEN /\ users' = users \cup {new_user}
                 /\ nextUser' = nextUser + 1
                 /\ resp' = Response("register", 0, 0, 201, "ok", "",
                                     <<UserProfile(new_user)>>)
            ELSE \* IntegrityError, rollback
                 /\ UNCHANGED <<users, nextUser>>
                 /\ resp' = HttpError("register", 0, 0, 500,
                                      "Failed to create user account")

(***************************************************************************)
(* POST /auth/login.                                                       *)
(***************************************************************************)
\* watch: the model follows the life of this token, if it follows none yet
login(body, watch) ==
    /\ resp = NoResponse
    /\ UNCHANGED <<schema, checked, toggled, req, pool,
                   clock, users, tasks, nextUser, nextTask, reg>>
    /\ IF ~LoginRequestOk(body)
       THEN /\ resp' = RequestInvalid("login", 0, 0, "body: invalid")
            /\ UNCHANGED issued
       ELSE LET found == UsersByEmailCI(NormalizeEmail(body.email)) IN
            IF Cardinality(found) > 1
            THEN \* scalar_one_or_none raises MultipleResultsFound
                 /\ resp' = HttpError("login", 0, 0, 500, "Login failed")
                 /\ UNCHANGED issued
            ELSE IF found = {}
            THEN /\ resp' = HttpError("login", 0, 0, 401,
                                      "Invalid email or password")
                 /\ UNCHANGED issued
            ELSE LET user == CHOOSE u \in found : TRUE IN
                 IF ~verify_password(body.password, user.password_hash)
                 THEN /\ resp' = HttpError("login", 0, 0, 401,
                                           "Invalid email or password")
                      /\ UNCHANGED issued
                 ELSE LET access_token ==
                            create_access_token(user.id, user.email, clock)
                      IN
                      /\ issued' =
                            IF watch /\ issued = {}
                            THEN issued \cup
                                 {[token |-> access_token, at |-> clock]}
                            ELSE issued
                      /\ resp' = Response("login", 0, 0, 200, "ok", "",
                            <<[access_token |-> access_token,
                               token_type |-> "bearer",
                               user |-> UserProfile(user)]>>)

(***************************************************************************)
(* Authentication dependency of every protected route.                     *)
(***************************************************************************)
\* the dependency without the lookup of the user row: a variant the
\* authentication property has to tell apart from get_current_user
get_current_user_unchecked(token) ==
    LET user_id == extract_user_id_from_token(token, clock) IN
    IF user_id = None
    THEN [ok |-> FALSE, id |-> 0,
          detail |-> "Invalid or expired authentication token"]
    ELSE [ok |-> TRUE, id |-> user_id[1], detail |-> ""]

\* get_current_user: the resolved user, or the 401 it raises
get_current_user(token) ==
    LET user_id == extract_user_id_from_token(token, clock) IN
    IF user_id = None
    THEN [ok |-> FALSE, id |-> 0,
          detail |-> "Invalid or expired authentication token"]
    ELSE IF UsersById(user_id[1]) = {}
    THEN [ok |-> FALSE, id |-> 0, detail |-> "User not found"]
    ELSE [ok |-> TRUE, id |-> user_id[1], detail |-> ""]

\* the HTTPException(401) of get_current_user, as the framework answers it
Unauthorized(op, task_id, auth) ==
    HttpError(op, 0, task_id, 401, auth.detail)

\* tokens a client can put in the Authorization header besides those login
\* issued: Alice's token signed with another key, expired, with a subject
\* that is no identifier, without subject, and malformed
ForgedTokens ==
    LET base == create_access_token(1, EmailAlice, clock) IN
    {[base EXCEPT !.key = "other"],
     [base EXCEPT !.payload.exp = NumericDate(clock)],
     [base EXCEPT !.payload.sub = <<"not-a-uuid">>],
     [base EXCEPT !.payload = [email |-> EmailAlice,
                               exp |-> base.payload.exp,
                               iat |-> base.payload.iat]],
     [base EXCEPT !.kind = "malformed"]}

\* the tokens login issued
IssuedTokens == {i.token : i \in issued}

RequestTokens == IssuedTokens \cup ForgedTokens

(***************************************************************************)
(* POST /auth/logout and GET /auth/me.                                     *)
(***************************************************************************)
logout(token) ==
    LET auth == get_current_user(token) IN
    /\ resp = NoResponse
    /\ UNCHANGED <<schema, checked, toggled, req, pool,
                   clock, users, tasks, nextUser, nextTask, issued,
                   reg>>
    /\ resp' = Stamp(token,
                     IF ~auth.ok THEN Unauthorized("logout", 0, auth)
                     ELSE Response("logout", auth.id, 0, 200, "ok",
                                   "Successfully logged out", <<>>))

get_current_user_profile(token) ==
    LET auth == get_current_user(token) IN
    /\ resp = NoResponse
    /\ UNCHANGED <<schema, checked, toggled, req, pool,
                   clock, users, tasks, nextUser, nextTask, issued,
                   reg>>
    /\ resp' = Stamp(token,
                     IF ~auth.ok THEN Unauthorized("me", 0, auth)
                     ELSE Response("me", auth.id, 0, 200, "ok", "",
                             <<UserProfile(CHOOSE u \in users :
                                              u.id = auth.id)>>))

(***************************************************************************)
(* Persistence layer: the tasks table, rows in insertion order.            *)
(***************************************************************************)
Range(f) == {f[i] : i \in DOMAIN f}

\* the lookup by id alone, without the ownership condition: a variant the
\* isolation of tasks has to tell apart from TaskIndex
TaskIndexAnyOwner(task_id, user_id) ==
    {i \in 1..Len(tasks) : tasks[i].id = task_id}

\* select(Task).where(Task.id == task_id, Task.user_id == current_user.id)
TaskIndex(task_id, user_id) ==
    {i \in 1..Len(tasks) :
        tasks[i].id = task_id /\ tasks[i].user_id = user_id}

\* select(Task).where(Task.user_id == user_id) over the rows seq
RECURSIVE RowsOf(_, _)
RowsOf(seq, user_id) ==
    IF seq = <<>> THEN <<>>
    ELSE IF Head(seq).user_id = user_id
    THEN <<Head(seq)>> \o RowsOf(Tail(seq), user_id)
    ELSE RowsOf(Tail(seq), user_id)

\* the query without its WHERE clause: a variant the listing has to tell
\* apart from TasksOf
TasksOfAnyone(user_id) == tasks

TasksOf(user_id) == RowsOf(tasks, user_id)

\* the rows of seq that user_id does not own
RECURSIVE RowsExcept(_, _)
RowsExcept(seq, user_id) ==
    IF seq = <<>> THEN <<>>
    ELSE IF Head(seq).user_id # user_id
    THEN <<Head(seq)>> \o RowsExcept(Tail(seq), user_id)
    ELSE RowsExcept(Tail(seq), user_id)

\* every ordering of rows that ORDER BY created_at DESC can return: the
\* statement names no second sort key, so rows with equal created_at come in
\* whatever order the store produces them
OrderByCreatedDesc(rows) ==
    {s \in [1..Len(rows) -> Range(rows)] :
        /\ \A i, j \in 1..Len(rows) : i # j => s[i] # s[j]
        /\ \A i, j \in 1..Len(rows) :
              i < j => s[i].created_at >= s[j].created_at}

(***************************************************************************)
(* Request schemas of the task routes.  A JSON body is the set of its      *)
(* <<key, value>> members.                                                 *)
(***************************************************************************)
Has(body, key) == \E m \in body : m[1] = key
Get(body, key) == (CHOOSE m \in body : m[1] = key)[2]

IsStr(v) == v \notin {Null, JTrue, JFalse}

\* Field(min_length=1, max_length=200), then title_not_empty
TitleOk(v) ==
    /\ IsStr(v)
    /\ Len(v) >= 1
    /\ Len(v) <= TITLE_MAX_LENGTH
    /\ ~IsBlank(v)

\* Optional[str] with Field(max_length=2000)
DescriptionOk(v) == v = Null \/ (IsStr(v) /\ Len(v) <= DESCRIPTION_MAX_LENGTH)

\* TaskCreate: title required; description and completed optional; other
\* keys are ignored
TaskCreateOk(body) ==
    /\ Has(body, "title")
    /\ TitleOk(Get(body, "title"))
    /\ Has(body, "description") => DescriptionOk(Get(body, "description"))
    /\ Has(body, "completed") =>
          Get(body, "completed") \in {Null, JTrue, JFalse}

\* TaskUpdate: both fields optional and nullable; title_not_empty lets None
\* through
TaskUpdateOk(body) ==
    /\ Has(body, "title") =>
          (Get(body, "title") = Null \/ TitleOk(Get(body, "title")))
    /\ Has(body, "description") => DescriptionOk(Get(body, "description"))

\* the parse that takes a task for completed when the body does not say: a
\* variant the creation of tasks has to tell apart from TaskCreateData
TaskCreateDataCompleted(body) ==
    [title |-> Get(body, "title"),
     description |-> IF Has(body, "description")
                     THEN Get(body, "description") ELSE Null,
     completed |-> IF Has(body, "completed")
                   THEN Get(body, "completed") ELSE JTrue]

\* the parsed TaskCreate: defaults filled in
TaskCreateData(body) ==
    [title |-> Get(body, "title"),
     description |-> IF Has(body, "description")
                     THEN Get(body, "description") ELSE Null,
     completed |-> IF Has(body, "completed")
                   THEN Get(body, "completed") ELSE JFalse]

\* every key of the body taken for a field to set: a variant the frame of
\* an update has to tell apart from UpdateData
UpdateDataRaw(body) == body

\* task_data.model_dump(exclude_unset=True): the fields of the schema that
\* the client sent
UpdateData(body) == {m \in body : m[1] \in {"title", "description"}}

\* the table with title nullable: a variant the validity of stored tasks
\* has to tell apart from TaskRowOk
TaskRowOkNullable(t) ==
    \/ t.title = Null
    \/ schema = "alembic" =>
          /\ Len(t.title) <= TITLE_MAX_LENGTH
          /\ \E i \in 1..Len(t.title) : t.title[i] # " "
          /\ (t.description = Null
              \/ Len(t.description) <= DESCRIPTION_MAX_LENGTH)

\* the NOT NULL constraint on title (both schemas) and the CHECK constraints
\* of the migrations
TaskRowOk(t) ==
    /\ t.title # Null
    /\ schema = "alembic" =>
          /\ Len(t.title) <= TITLE_MAX_LENGTH
          /\ \E i \in 1..Len(t.title) : t.title[i] # " "
          /\ (t.description = Null
              \/ Len(t.description) <= DESCRIPTION_MAX_LENGTH)

\* task_not_found_error_handler on TaskNotFoundError(task_id); the id the
\* message quotes is the task_id of the response
TaskNotFound(op, user, task_id) ==
    Response(op, user, task_id, 404, "not_found",
             "Task with id '{task_id}' not found", <<>>)

\* database_error_handler on the DatabaseError the handler raises after its
\* rollback
TaskDatabaseError(op, user, task_id) ==
    Response(op, user, task_id, 500, "database_error",
             IF op = "create_task" THEN "Failed to create task in database"
             ELSE IF op = "delete_task"
             THEN "Failed to delete task from database"
             ELSE IF op = "toggle"
             THEN "Failed to toggle task completion status in database"
             ELSE "Failed to update task in database", <<>>)

(***************************************************************************)
(* Inputs of the task routes.                                              *)
(***************************************************************************)
TitleA == <<"a">>
TitleB == <<"b">>
TitleBlank == <<" ", "\t">>
TitleLong == [i \in 1..(TITLE_MAX_LENGTH + 1) |-> "a"]
DescriptionD == <<"d">>
DescriptionLong == [i \in 1..(DESCRIPTION_MAX_LENGTH + 1) |-> "d"]

TaskIds == 1..(MaxTasks + 1)
ListedIds == 1..(MaxListed + 1)
CreateBodies ==
    {{<<"title", TitleA>>},
     {<<"title", TitleB>>, <<"description", DescriptionD>>,
      <<"completed", JTrue>>},
     {<<"title", TitleA>>, <<"completed", Null>>,
      <<"user_id", UuidStr(2)>>},
     {<<"title", TitleBlank>>},
     {<<"title", TitleLong>>},
     {<<"title", TitleA>>, <<"description", DescriptionLong>>},
     {<<"description", DescriptionD>>}}
UpdateBodies ==
    {{},
     {<<"title", TitleB>>},
     {<<"description", DescriptionD>>},
     {<<"title", TitleA>>, <<"description", Null>>},
     {<<"title", TitleBlank>>},
     {<<"title", Null>>},
     {<<"description", DescriptionLong>>},
     {<<"completed", JTrue>>, <<"user_id", UuidStr(2)>>}}

\* the bodies sent with the tokens of the authentication specification: one
\* the schema accepts and one it rejects
GuardCreateBodies == {{<<"title", TitleA>>}, {<<"title", TitleBlank>>}}
GuardUpdateBodies == {{<<"title", TitleB>>}, {<<"title", TitleBlank>>}}

(***************************************************************************)
(* The task routes.                                                        *)
(***************************************************************************)
\* POST /tasks; limit bounds the tasks ever inserted
create_task(token, body, limit) ==
    LET auth == get_current_user(token) IN
    /\ resp = NoResponse
    /\ UNCHANGED <<schema, checked, toggled, req, pool, users, nextUser, issued, reg>>
    /\ IF ~auth.ok
       THEN /\ resp' = Stamp(token, Unauthorized("create_task", 0, auth))
            /\ UNCHANGED <<clock, tasks, nextTask>>
       ELSE IF ~TaskCreateOk(body)
       THEN /\ resp' = Stamp(token,
                              RequestInvalid("create_task", auth.id, 0,
                                             "body: invalid"))
            /\ UNCHANGED <<clock, tasks, nextTask>>
       ELSE \E d \in ClockSteps :
            LET task_data == TaskCreateData(body)
                new_task == [id |-> nextTask,
                             user_id |-> auth.id,
                             title |-> task_data.title,
                             description |-> task_data.description,
                             completed |->
                                IF task_data.completed # Null
                                THEN task_data.completed = JTrue ELSE FALSE,
                             created_at |-> clock,
                             updated_at |-> clock + d]
            IN
            /\ nextTask <= limit
            /\ clock + d <= MaxClock
            /\ clock' = clock + d
            /\ IF TaskRowOk(new_task)
               THEN /\ tasks' = Append(tasks, new_task)
                    /\ nextTask' = nextTask + 1
                    /\ resp' = Stamp(token,
                           Response("create_task", auth.id, new_task.id,
                                    201, "ok", "", <<new_task>>))
               ELSE /\ UNCHANGED <<tasks, nextTask>>
                    /\ resp' = Stamp(token,
                           TaskDatabaseError("create_task", auth.id, 0))

\* GET /tasks
list_tasks(token) ==
    LET auth == get_current_user(token) IN
    /\ resp = NoResponse
    /\ UNCHANGED <<schema, checked, toggled, req, pool,
                   clock, users, tasks, nextUser, nextTask, issued,
                   reg>>
    /\ IF ~auth.ok
       THEN resp' = Stamp(token, Unauthorized("list_tasks", 0, auth))
       ELSE \E rows \in OrderByCreatedDesc(TasksOf(auth.id)) :
               resp' = Stamp(token, Response("list_tasks", auth.id, 0,
                                              200, "ok", "", rows))

\* GET /tasks/{task_id}
get_task(token, task_id) ==
    LET auth == get_current_user(token)
        found == TaskIndex(task_id, auth.id)
    IN
    /\ resp = NoResponse
    /\ UNCHANGED <<schema, checked, toggled, req, pool,
                   clock, users, tasks, nextUser, nextTask, issued,
                   reg>>
    /\ resp' = Stamp(token,
                     IF ~auth.ok THEN Unauthorized("get_task", task_id, auth)
                     ELSE IF found = {}
                     THEN TaskNotFound("get_task", auth.id, task_id)
                     ELSE Response("get_task", auth.id, task_id, 200, "ok",
                                   "", <<tasks[CHOOSE i \in found : TRUE]>>))

\* the setattr loop run over every field of the schema, a field the client
\* did not send being written as null: a variant the partial update has to
\* tell apart from ApplyUpdate
ApplyUpdateEveryField(task, body, now) ==
    [task EXCEPT
        !.title = IF Has(body, "title") THEN Get(body, "title") ELSE @,
        !.description = IF Has(body, "description")
                        THEN Get(body, "description") ELSE Null,
        !.updated_at = now]

\* the task after the setattr loop and the refresh of updated_at
ApplyUpdate(task, body, now) ==
    LET update_data == UpdateData(body) IN
    [field \in DOMAIN task |->
        IF field = "updated_at" THEN now
        ELSE IF Has(update_data, field) THEN Get(update_data, field)
        ELSE task[field]]

\* a failed commit that leaves the refreshed updated_at of the i-th row
\* behind: a variant the atomicity of a failed request has to tell apart
\* from Rollback
RollbackKeepsTimestamp(rows, i, task) ==
    [rows EXCEPT ![i].updated_at = task.updated_at]

\* db.rollback() after the commit of task as i-th row failed: the rows as
\* they were committed before the request
Rollback(rows, i, task) == rows

\* PATCH /tasks/{task_id}
update_task(token, task_id, body) ==
    LET auth == get_current_user(token)
        found == TaskIndex(task_id, auth.id)
    IN
    /\ resp = NoResponse
    /\ UNCHANGED <<schema, checked, toggled, req, pool,
                   clock, users, nextUser, nextTask, issued, reg>>
    /\ IF ~auth.ok
       THEN /\ resp' = Stamp(token, Unauthorized("update_task", task_id, auth))
            /\ UNCHANGED tasks
       ELSE IF ~TaskUpdateOk(body)
       THEN /\ resp' = Stamp(token,
                              RequestInvalid("update_task", auth.id, task_id,
                                             "body: invalid"))
            /\ UNCHANGED tasks
       ELSE IF found = {}
       THEN /\ resp' = Stamp(token, TaskNotFound("update_task", auth.id, task_id))
            /\ UNCHANGED tasks
       ELSE LET i == CHOOSE i \in found : TRUE
                task == ApplyUpdate(tasks[i], body, clock)
            IN
            IF TaskRowOk(task)
            THEN /\ tasks' = [tasks EXCEPT ![i] = task]
                 /\ resp' = Stamp(token,
                                   Response("update_task", auth.id, task_id,
                                            200, "ok", "", <<task>>))
            ELSE \* IntegrityError, rollback, DatabaseError
                 /\ tasks' = Rollback(tasks, i, task)
                 /\ resp' = Stamp(token,
                                   TaskDatabaseError("update_task", auth.id,
                                                     task_id))

\* seq cut before its i-th element, the rows after it going with it: a
\* variant the deletion of one task has to tell apart from RemoveAt
RemoveFrom(seq, i) == SubSeq(seq, 1, i - 1)

\* seq without its i-th element
RemoveAt(seq, i) == SubSeq(seq, 1, i - 1) \o SubSeq(seq, i + 1, Len(seq))

\* DELETE /tasks/{task_id}
delete_task(token, task_id) ==
    LET auth == get_current_user(token)
        found == TaskIndex(task_id, auth.id)
    IN
    /\ resp = NoResponse
    /\ UNCHANGED <<schema, checked, toggled, req, pool,
                   clock, users, nextUser, nextTask, issued, reg>>
    /\ IF ~auth.ok
       THEN /\ resp' = Stamp(token, Unauthorized("delete_task", task_id, auth))
            /\ UNCHANGED tasks
       ELSE IF found = {}
       THEN /\ resp' = Stamp(token, TaskNotFound("delete_task", auth.id, task_id))
            /\ UNCHANGED tasks
       ELSE /\ tasks' = RemoveAt(tasks, CHOOSE i \in found : TRUE)
            /\ resp' = Stamp(token,
                              Response("delete_task", auth.id, task_id, 204,
                                       "ok", "", <<>>))

\* a handler that marks the task completed whatever it read: a variant the
\* toggle has to tell apart from ApplyToggle
ApplyToggleCompleted(task, now) ==
    [task EXCEPT !.completed = TRUE, !.updated_at = now]

\* task.completed = not task.completed, then the refresh of updated_at
ApplyToggle(task, now) ==
    [task EXCEPT !.completed = ~@, !.updated_at = now]

\* POST /tasks/{task_id}/toggle.  watch: the toggle is one whose effect is
\* followed; toggled then keeps the id, the value of completed the handler
\* read and the row it committed
toggle_task_completion(token, task_id, watch) ==
    LET auth == get_current_user(token)
        found == TaskIndex(task_id, auth.id)
    IN
    /\ resp = NoResponse
    /\ UNCHANGED <<schema, checked, req, pool,
                   clock, users, nextUser, nextTask, issued, reg>>
    /\ IF ~auth.ok
       THEN /\ resp' = Stamp(token, Unauthorized("toggle", task_id, auth))
            /\ UNCHANGED <<tasks, toggled>>
       ELSE IF found = {}
       THEN /\ resp' = Stamp(token, TaskNotFound("toggle", auth.id, task_id))
            /\ UNCHANGED <<tasks, toggled>>
       ELSE LET i == CHOOSE i \in found : TRUE
                task == ApplyToggle(tasks[i], clock)
            IN
            /\ tasks' = [tasks EXCEPT ![i] = task]
            /\ toggled' = IF watch
                          THEN Some([before |-> tasks[i].completed,
                                     row |-> task])
                          ELSE toggled
            /\ resp' = Stamp(token,
                              Response("toggle", auth.id, task_id, 200, "ok",
                                       "", <<task>>))

(***************************************************************************)
(* The by-id routes that write, one action per database round trip: the    *)
(* request waits for a session of the pool, looks the task up, commits     *)
(* (the flush of the UPDATE or DELETE and the COMMIT, which the row lock   *)
(* makes one step for writers of the same row), refreshes the object and   *)
(* answers.  req[p] is the request process p serves, row the Task object   *)
(* of its session; pool counts the sessions checked out.                   *)
(***************************************************************************)
NoRequest ==
    [pc |-> "idle", op |-> "none", token |-> NoToken, task_id |-> 0,
     body |-> {}, row |-> None]

\* the columns of the flush: the attributes whose value differs from the
\* one the session loaded
ChangedColumns(row, task) ==
    {c \in {"title", "description", "completed", "updated_at"} :
        task[c] # row[c]}

\* an UPDATE that inserts the row when it matches none: a variant the
\* absence of a deleted task has to tell apart from UpdateRows
UpsertRows(rows, task, cols) ==
    IF \E i \in 1..Len(rows) : rows[i].id = task.id
    THEN [rows |-> [i \in 1..Len(rows) |->
                      IF rows[i].id = task.id
                      THEN [c \in DOMAIN rows[i] |->
                              IF c \in cols THEN task[c] ELSE rows[i][c]]
                      ELSE rows[i]],
          rowcount |-> 1]
    ELSE [rows |-> Append(rows, task), rowcount |-> 1]

\* UPDATE tasks SET cols WHERE id = task.id, and the number of rows matched
UpdateRows(rows, task, cols) ==
    [rows |-> [i \in 1..Len(rows) |->
                 IF rows[i].id = task.id
                 THEN [c \in DOMAIN rows[i] |->
                         IF c \in cols THEN task[c] ELSE rows[i][c]]
                 ELSE rows[i]],
     rowcount |-> Cardinality({i \in 1..Len(rows) : rows[i].id = task.id})]

\* DELETE FROM tasks WHERE id = ...; a DELETE that matches no row is a
\* warning of the mapper, not an error
DeleteRows(rows, id) == SelectSeq(rows, LAMBDA t : t.id # id)

\* a session closed only when the request returns without error: a variant
\* the release of sessions has to tell apart from Release
ReleaseOnSuccess(n, r) == IF r.status >= 400 THEN n ELSE n - 1

\* get_db: async with SessionLocal(), finally session.close(), whatever
\* the response r of the request
Release(n, r) == n - 1

\* the request arrives
Arrive(p, op, token, task_id, body) ==
    /\ resp = NoResponse
    /\ req[p].pc = "idle"
    /\ req' = [req EXCEPT ![p] = [pc |-> "waiting", op |-> op,
                                  token |-> token, task_id |-> task_id,
                                  body |-> body, row |-> None]]
    /\ UNCHANGED <<schema, checked, toggled, pool, clock, users, tasks, nextUser,
                   nextTask, issued, reg, resp>>

\* Depends(get_db): a session of the pool, of limit sessions at most
Acquire(p, limit) ==
    /\ resp = NoResponse
    /\ req[p].pc = "waiting"
    /\ pool < limit
    /\ pool' = pool + 1
    /\ req' = [req EXCEPT ![p].pc = "lookup"]
    /\ UNCHANGED <<schema, checked, toggled, clock, users, tasks, nextUser, nextTask,
                   issued, reg, resp>>

\* the request of p ends with response r and its session is closed
Finish(p, r) ==
    /\ resp' = Stamp(req[p].token, r)
    /\ req' = [req EXCEPT ![p] = NoRequest]
    /\ pool' = Release(pool, r)

\* get_current_user, the validation of the body, and the SELECT by id and
\* owner
Lookup(p) ==
    LET q == req[p]
        auth == get_current_user(q.token)
        found == TaskIndex(q.task_id, auth.id)
    IN
    /\ resp = NoResponse
    /\ q.pc = "lookup"
    /\ UNCHANGED <<schema, checked, toggled, clock, users, tasks, nextUser, nextTask,
                   issued, reg>>
    /\ IF ~auth.ok
       THEN Finish(p, Unauthorized(q.op, q.task_id, auth))
       ELSE IF q.op = "update_task" /\ ~TaskUpdateOk(q.body)
       THEN Finish(p, RequestInvalid(q.op, auth.id, q.task_id,
                                     "body: invalid"))
       ELSE IF found = {}
       THEN Finish(p, TaskNotFound(q.op, auth.id, q.task_id))
       ELSE /\ req' = [req EXCEPT
                         ![p].pc = "commit",
                         ![p].row = Some(tasks[CHOOSE i \in found : TRUE])]
            /\ UNCHANGED <<pool, resp>>

\* the change of the object, then db.commit()
Commit(p) ==
    LET q == req[p]
        row == q.row[1]
    IN
    /\ resp = NoResponse
    /\ q.pc = "commit"
    /\ UNCHANGED <<schema, checked, toggled, clock, users, nextUser, nextTask, issued,
                   reg>>
    /\ IF q.op = "delete_task"
       THEN /\ tasks' = DeleteRows(tasks, row.id)
            /\ Finish(p, Response("delete_task", row.user_id, q.task_id,
                                   204, "ok", "", <<>>))
       ELSE LET task == IF q.op = "update_task"
                        THEN ApplyUpdate(row, q.body, clock)
                        ELSE ApplyToggle(row, clock)
                cols == ChangedColumns(row, task)
                written == UpdateRows(tasks, task, cols)
            IN
            IF cols = {}
            THEN \* nothing to flush
                 /\ req' = [req EXCEPT ![p].pc = "refresh",
                                       ![p].row = Some(task)]
                 /\ UNCHANGED <<tasks, pool, resp>>
            ELSE IF written.rowcount = 0
            THEN \* StaleDataError, rollback, DatabaseError
                 /\ UNCHANGED tasks
                 /\ Finish(p, TaskDatabaseError(q.op, row.user_id,
                                                q.task_id))
            ELSE IF \E i \in 1..Len(written.rows) :
                       /\ written.rows[i].id = row.id
                       /\ ~TaskRowOk(written.rows[i])
            THEN \* IntegrityError, rollback, DatabaseError
                 /\ UNCHANGED tasks
                 /\ Finish(p, TaskDatabaseError(q.op, row.user_id,
                                                q.task_id))
            ELSE /\ tasks' = written.rows
                 /\ req' = [req EXCEPT ![p].pc = "refresh",
                                       ![p].row = Some(task)]
                 /\ UNCHANGED <<pool, resp>>

\* db.refresh(task): the row read again by its primary key; a row that is
\* gone raises InvalidRequestError
Refresh(p) ==
    LET q == req[p]
        row == q.row[1]
        found == {i \in 1..Len(tasks) : tasks[i].id = row.id}
    IN
    /\ resp = NoResponse
    /\ q.pc = "refresh"
    /\ UNCHANGED <<schema, checked, toggled, clock, users, tasks, nextUser, nextTask,
                   issued, reg>>
    /\ IF found = {}
       THEN Finish(p, TaskDatabaseError(q.op, row.user_id, q.task_id))
       ELSE Finish(p, Response(q.op, row.user_id, q.task_id, 200, "ok", "",
                               <<tasks[CHOOSE i \in found : TRUE]>>))

(***************************************************************************)
(* Environment: the passage of time, and a row of users deleted in the     *)
(* database (no route deletes a user).                                     *)
(***************************************************************************)
Advance(limit) ==
    /\ resp = NoResponse
    /\ clock < limit
    /\ clock' = clock + 1
    /\ UNCHANGED <<schema, checked, toggled, req, pool,
                   users, tasks, nextUser, nextTask, issued, reg,
                   resp>>

Tick == Advance(MaxClock)

\* time passing over the life of a token: tick by tick near time 0 and near
\* LifetimeTicks, in one leap in between
TickToken ==
    /\ resp = NoResponse
    /\ clock < LifetimeTicks + ExpirySlack
    /\ clock' = IF clock < ExpirySlack \/ clock >= LifetimeTicks - ExpirySlack
                THEN clock + 1
                ELSE clock + (LifetimeTicks - 2 * ExpirySlack)
    /\ UNCHANGED <<schema, checked, toggled, req, pool,
                   users, tasks, nextUser, nextTask, issued, reg,
                   resp>>

\* a foreign key that lets the rows of a deleted user stay: a variant the
\* absence of orphan tasks has to tell apart from OnDeleteCascade
OnDeleteIgnored(rows, user_id) == rows

\* fk_tasks_user_id ON DELETE CASCADE: the tasks left when the user goes
OnDeleteCascade(rows, user_id) == RowsExcept(rows, user_id)

\* DELETE FROM users WHERE id = ...: the foreign key of the migrations is ON
\* DELETE CASCADE; the one create_all builds has no ON DELETE action, so the
\* statement fails while the user owns a task
DeleteUser(id) ==
    /\ resp = NoResponse
    /\ UsersById(id) # {}
    /\ schema = "metadata" => TasksOf(id) = <<>>
    /\ users' = users \ UsersById(id)
    /\ tasks' = OnDeleteCascade(tasks, id)
    /\ UNCHANGED <<schema, checked, toggled, req, pool,
                   clock, nextUser, nextTask, issued, reg, resp>>

(***************************************************************************)
(* Specifications.                                                         *)
(***************************************************************************)
Schemas == {"metadata", "alembic"}

\* the two accounts of the task and token specifications, as register
\* leaves them
Alice == [id |-> 1, email |-> EmailAlice, username |-> NameAnn,
          password_hash |-> hash_password(PasswordGood, "salt1"),
          created_at |-> 0, updated_at |-> 0]
Bob == [id |-> 2, email |-> EmailBob, username |-> NameBob,
        password_hash |-> hash_password(PasswordGood, "salt1"),
        created_at |-> 0, updated_at |-> 0]

\* the empty database
InitAuth ==
    /\ schema \in Schemas
    /\ clock = 0
    /\ users = {}
    /\ tasks = <<>>
    /\ nextUser = 1
    /\ nextTask = 1
    /\ issued = {}
    /\ reg = [p \in Procs |-> Idle]
    /\ resp = NoResponse
    /\ toggled = None
    /\ req = [p \in Procs |-> NoRequest]
    /\ pool = 0
    /\ checked = NoCheck

\* Alice and Bob registered
InitToken ==
    /\ schema = "alembic"
    /\ clock = 0
    /\ users = {Alice, Bob}
    /\ tasks = <<>>
    /\ nextUser = 3
    /\ nextTask = 1
    /\ issued = {}
    /\ reg = [p \in Procs |-> Idle]
    /\ resp = NoResponse
    /\ toggled = None
    /\ req = [p \in Procs |-> NoRequest]
    /\ pool = 0
    /\ checked = NoCheck

\* Alice and Bob registered and logged in
Init ==
    /\ schema \in Schemas
    /\ clock = 0
    /\ users = {Alice, Bob}
    /\ tasks = <<>>
    /\ nextUser = 3
    /\ nextTask = 1
    /\ issued = {[token |-> create_access_token(u.id, u.email, 0), at |-> 0] :
                    u \in {Alice, Bob}}
    /\ reg = [p \in Procs |-> Idle]
    /\ resp = NoResponse
    /\ toggled = None
    /\ req = [p \in Procs |-> NoRequest]
    /\ pool = 0
    /\ checked = NoCheck

\* the protected routes, called with the tokens login issued
Next ==
    \/ \E token \in IssuedTokens, body \in CreateBodies :
          create_task(token, body, MaxTasks)
    \/ \E token \in IssuedTokens : list_tasks(token)
    \/ \E token \in IssuedTokens, task_id \in TaskIds :
          get_task(token, task_id)
    \/ \E token \in IssuedTokens, task_id \in TaskIds, body \in UpdateBodies :
          update_task(token, task_id, body)
    \/ \E token \in IssuedTokens, task_id \in TaskIds :
          delete_task(token, task_id)
    \/ \E token \in IssuedTokens, task_id \in TaskIds :
          toggle_task_completion(token, task_id, FALSE)
    \/ \E token \in IssuedTokens : logout(token)
    \/ \E token \in IssuedTokens : get_current_user_profile(token)
    \/ \E id \in 1..MaxUsers : DeleteUser(id)
    \/ Tick
    \/ Deliver

Spec == Init /\ [][Next]_vars

\* the protected routes, called with any token a client can send
NextGuard ==
    \/ \E token \in RequestTokens, body \in GuardCreateBodies :
          create_task(token, body, MaxTasks)
    \/ \E token \in RequestTokens : list_tasks(token)
    \/ \E token \in RequestTokens, task_id \in TaskIds :
          get_task(token, task_id)
    \/ \E token \in RequestTokens, task_id \in TaskIds,
          body \in GuardUpdateBodies :
          update_task(token, task_id, body)
    \/ \E token \in RequestTokens, task_id \in TaskIds :
          delete_task(token, task_id)
    \/ \E token \in RequestTokens, task_id \in TaskIds :
          toggle_task_completion(token, task_id, FALSE)
    \/ \E token \in RequestTokens : logout(token)
    \/ \E token \in RequestTokens : get_current_user_profile(token)
    \/ \E id \in 1..MaxUsers : DeleteUser(id)
    \/ Tick
    \/ Deliver

SpecGuard == Init /\ [][NextGuard]_vars

\* creating, reading and listing tasks
NextList ==
    \/ \E token \in RequestTokens, body \in CreateBodies :
          create_task(token, body, MaxListed)
    \/ \E token \in RequestTokens : list_tasks(token)
    \/ \E token \in RequestTokens, task_id \in ListedIds :
          get_task(token, task_id)
    \/ Tick
    \/ Deliver

SpecList == Init /\ [][NextList]_vars

\* updates and toggles of a task, every toggle followed
NextToggle ==
    \/ \E token \in IssuedTokens, body \in GuardCreateBodies :
          create_task(token, body, MaxTasks)
    \/ \E token \in IssuedTokens, task_id \in TaskIds,
          body \in GuardUpdateBodies :
          update_task(token, task_id, body)
    \/ \E token \in IssuedTokens, task_id \in TaskIds :
          toggle_task_completion(token, task_id, TRUE)
    \/ Tick
    \/ Deliver

SpecToggle == Init /\ [][NextToggle]_vars

\* creating, reading and deleting tasks
NextDelete ==
    \/ \E token \in IssuedTokens, body \in GuardCreateBodies :
          create_task(token, body, MaxListed)
    \/ \E token \in IssuedTokens, task_id \in ListedIds :
          get_task(token, task_id)
    \/ \E token \in IssuedTokens, task_id \in ListedIds :
          delete_task(token, task_id)
    \/ Deliver

SpecDelete == Init /\ [][NextDelete]_vars

\* the tokens and the update bodies of the whole-system specification: the
\* token login issued and one signed with another key; a valid body, a blank
\* title and a null title
SystemTokens ==
    IssuedTokens
    \cup {[create_access_token(1, EmailAlice, 0) EXCEPT !.key = "other"]}
SystemUpdateBodies == GuardUpdateBodies \cup {{<<"title", Null>>}}

\* the accounts of the whole-system specification: two that differ in the
\* email and share the username, and the logins of the first
SystemRegisterBodies ==
    {RegisterBody(EmailAlice, NameAnn, PasswordGood),
     RegisterBody(EmailBob, NameAnn, PasswordGood)}
SystemLoginBodies ==
    {[email |-> EmailAlice, password |-> PasswordGood],
     [email |-> EmailAlice, password |-> PasswordOther]}

\* every route, from the empty database on
NextSystem ==
    \/ \E p \in Procs, body \in SystemRegisterBodies : RegisterEmail(p, body)
    \/ \E p \in Procs : RegisterUsername(p)
    \/ \E p \in Procs : RegisterInsert(p)
    \/ \E body \in SystemLoginBodies : login(body, TRUE)
    \/ \E token \in SystemTokens, body \in GuardCreateBodies :
          create_task(token, body, MaxTasks)
    \/ \E token \in SystemTokens, task_id \in TaskIds,
          body \in SystemUpdateBodies :
          update_task(token, task_id, body)
    \/ \E token \in SystemTokens, task_id \in TaskIds :
          delete_task(token, task_id)
    \/ \E token \in SystemTokens, task_id \in TaskIds :
          toggle_task_completion(token, task_id, FALSE)
    \/ \E token \in SystemTokens : list_tasks(token)
    \/ \E token \in SystemTokens, task_id \in TaskIds :
          get_task(token, task_id)
    \/ \E token \in SystemTokens : logout(token)
    \/ \E token \in SystemTokens : get_current_user_profile(token)
    \/ Deliver

SpecSystem == InitAuth /\ [][NextSystem]_vars

\* the requests that race on a task: updates that set the title the task
\* was created with, set another, or set nothing; toggles; deletes
RaceUpdateBodies == {{<<"title", TitleA>>}, {<<"title", TitleB>>}, {}}
RaceRequests ==
    [op : {"update_task"}, body : RaceUpdateBodies]
    \cup [op : {"toggle", "delete_task"}, body : {{}}]

\* Alice and Bob registered and logged in, and a task of Alice stored
RaceTask ==
    [id |-> 1, user_id |-> 1, title |-> TitleA, description |-> Null,
     completed |-> FALSE, created_at |-> 0, updated_at |-> 0]
InitRace ==
    /\ schema \in Schemas
    /\ clock = 0
    /\ users = {Alice, Bob}
    /\ tasks = <<RaceTask>>
    /\ nextUser = 3
    /\ nextTask = 2
    /\ issued = {[token |-> create_access_token(u.id, u.email, 0), at |-> 0] :
                    u \in {Alice, Bob}}
    /\ reg = [p \in Procs |-> Idle]
    /\ resp = NoResponse
    /\ toggled = None
    /\ req = [p \in Procs |-> NoRequest]
    /\ pool = 0
    /\ checked = NoCheck

\* bodies of PATCH that carry keys TaskUpdate does not declare, next to two
\* that carry none
PatchBodies ==
    {{<<"completed", TRUE>>},
     {<<"id", Bob.id>>, <<"user_id", Bob.id>>, <<"created_at", MaxClock>>},
     {<<"description", DescriptionD>>, <<"completed", TRUE>>,
      <<"id", Bob.id>>, <<"user_id", Bob.id>>, <<"created_at", MaxClock>>},
     {<<"title", TitleB>>, <<"user_id", Bob.id>>},
     {<<"title", TitleBlank>>, <<"completed", TRUE>>},
     {<<"title", TitleA>>, <<"description", Null>>},
     {}}

\* updates of the stored task, by its owner and by another user
NextPatch ==
    \/ \E token \in IssuedTokens, body \in PatchBodies :
          update_task(token, RaceTask.id, body)
    \/ Tick
    \/ Deliver

SpecPatch == InitRace /\ [][NextPatch]_vars

\* concurrent requests on the task, every one with a session of its own
NextRace ==
    \/ \E p \in Procs, r \in RaceRequests, token \in IssuedTokens :
          Arrive(p, r.op, token, RaceTask.id, r.body)
    \/ \E p \in Procs : Acquire(p, Cardinality(Procs))
    \/ \E p \in Procs : Lookup(p)
    \/ \E p \in Procs : Commit(p)
    \/ \E p \in Procs : Refresh(p)
    \/ Tick
    \/ Deliver

SpecRace == InitRace /\ [][NextRace]_vars

\* the requests that exercise every exit path: a valid update, one the
\* schema rejects, one the table rejects; a toggle; a delete
PoolRequests ==
    [op : {"update_task"},
     body : {{<<"title", TitleB>>}, {<<"title", TitleBlank>>},
             {<<"title", Null>>}}]
    \cup [op : {"toggle", "delete_task"}, body : {{}}]

\* requests that share a pool smaller than their number
NextPool ==
    \/ \E p \in Procs, r \in PoolRequests, token \in SystemTokens :
          Arrive(p, r.op, token, RaceTask.id, r.body)
    \/ \E p \in Procs : Acquire(p, MaxSessions)
    \/ \E p \in Procs : Lookup(p)
    \/ \E p \in Procs : Commit(p)
    \/ \E p \in Procs : Refresh(p)
    \/ Deliver

\* every request that can take a step takes it in the end (the event loop
\* runs every task that is ready, the pool serves its waiters in turn), and
\* every response is delivered
FairPool ==
    /\ WF_vars(Deliver)
    /\ \A p \in Procs :
          /\ SF_vars(Acquire(p, MaxSessions))
          /\ SF_vars(Lookup(p))
          /\ SF_vars(Commit(p))
          /\ SF_vars(Refresh(p))

SpecPool == InitRace /\ [][NextPool]_vars /\ FairPool

\* users who create tasks and are deleted: a task leaves the table only
\* with its owner
NextOwner ==
    \/ \E token \in IssuedTokens, body \in GuardCreateBodies :
          create_task(token, body, MaxListed)
    \/ \E id \in 1..MaxUsers : DeleteUser(id)
    \/ Deliver

SpecOwner == Init /\ [][NextOwner]_vars

\* the validators of email and username, called on every string of at most
\* MaxInput characters of ValidatorChars
ValidatorChars == {"a", "0", "_", ".", "@", "|", "\n"}
ValidatorInputs ==
    UNION {[1..n -> ValidatorChars] : n \in 0..MaxInput}

InitValidate ==
    /\ schema = "alembic"
    /\ clock = 0
    /\ users = {}
    /\ tasks = <<>>
    /\ nextUser = 1
    /\ nextTask = 1
    /\ issued = {}
    /\ reg = [p \in Procs |-> Idle]
    /\ resp = NoResponse
    /\ toggled = None
    /\ req = [p \in Procs |-> NoRequest]
    /\ pool = 0
    /\ \E s \in ValidatorInputs : checked = [NoCheck EXCEPT !.input = s]

NextValidate ==
    \/ CallValidateEmail
    \/ CallValidateUsername

SpecValidate == InitValidate /\ [][NextValidate]_vars

\* registration and login
NextAuth ==
    \/ \E p \in Procs, body \in RegisterBodies : RegisterEmail(p, body)
    \/ \E p \in Procs : RegisterUsername(p)
    \/ \E p \in Procs : RegisterInsert(p)
    \/ \E body \in LoginBodies : login(body, FALSE)
    \/ Deliver

SpecAuth == InitAuth /\ [][NextAuth]_vars

\* the life of a token
NextToken ==
    \/ \E body \in LoginBodies, watch \in BOOLEAN : login(body, watch)
    \/ \E token \in RequestTokens : logout(token)
    \/ \E token \in RequestTokens : get_current_user_profile(token)
    \/ \E token \in RequestTokens : list_tasks(token)
    \/ \E id \in 1..MaxUsers : DeleteUser(id)
    \/ TickToken
    \/ Deliver

SpecToken == InitToken /\ [][NextToken]_vars

(***************************************************************************)
(* Properties of the protected routes (specifications Spec, SpecGuard).    *)
(***************************************************************************)
\* a task with this id is stored and caller does not own it
OwnedByAnother(task_id, caller) ==
    \E i \in 1..Len(tasks) :
        tasks[i].id = task_id /\ tasks[i].user_id # caller

\* no task with this id was ever stored
NeverExisted(task_id) == task_id >= nextTask

\* the response is the not-found error
NotFoundOutcome(r) ==
    /\ r.status = 404
    /\ r.type = "not_found"
    /\ r.detail = "Task with id '{task_id}' not found"
    /\ r.body = <<>>

\* a step of one of the four routes that address a task by id, reaching the
\* handler
TaskByIdStep(token, task_id) ==
    \/ get_task(token, task_id)
    \/ \E body \in UpdateBodies :
          TaskUpdateOk(body) /\ update_task(token, task_id, body)
    \/ delete_task(token, task_id)
    \/ toggle_task_completion(token, task_id, FALSE)

\* C1: get_task, update_task, delete_task and toggle_task_completion called
\* by an authenticated user with the id of a task another user owns answer
\* with the not-found error, as they do for an id that never existed, and
\* leave the stored tasks as they were.
C1_NonOwnerGetsNotFound ==
    [][LET token == resp'.token
           task_id == resp'.task_id
           auth == get_current_user(token)
       IN
       (/\ resp' # NoResponse
        /\ auth.ok
        /\ OwnedByAnother(task_id, auth.id) \/ NeverExisted(task_id)
        /\ TaskByIdStep(token, task_id))
       => /\ NotFoundOutcome(resp')
          /\ resp'.user = auth.id
          /\ tasks' = tasks]_vars

\* an update by an authenticated user who does not own the addressed task
\* has just been answered with the not-found error, the task being stored
C1_Witness ==
    /\ resp.op = "update_task"
    /\ resp.user # 0
    /\ NotFoundOutcome(resp)
    /\ OwnedByAnother(resp.task_id, resp.user)

\* the token is well formed, signed with the server's key, not expired,
\* carries a subject that parses as an identifier, and that user is stored
TokenAuthentic(token) ==
    /\ token.kind = "jwt"
    /\ token.key = JWT_SECRET
    /\ "exp" \in DOMAIN token.payload =>
          clock < token.payload.exp * TicksPerSecond
    /\ "sub" \in DOMAIN token.payload
    /\ IsUuidStr(token.payload.sub)
    /\ \E u \in users : u.id = ParseUuid(token.payload.sub)

\* a step of any protected route made with this token
ProtectedStep(token) ==
    \/ \E body \in CreateBodies : create_task(token, body, MaxTasks)
    \/ list_tasks(token)
    \/ \E task_id \in TaskIds :
          \/ get_task(token, task_id)
          \/ \E body \in UpdateBodies : update_task(token, task_id, body)
          \/ delete_task(token, task_id)
          \/ toggle_task_completion(token, task_id, FALSE)
    \/ logout(token)
    \/ get_current_user_profile(token)

C3_UniqueEmailAndUsername ==
    \A u, v \in users :
        u.id # v.id =>
            /\ ToLower(u.email) # ToLower(v.email)
            /\ u.username # v.username

\* some stored user has this email, ignoring letter case
EmailTaken(email) == \E u \in users : ToLower(u.email) = ToLower(email)

\* some stored user has this username
UsernameTaken(username) == \E u \in users : u.username = username

\* the register request was refused with status 400
RegisterRefused(r) ==
    /\ r.op = "register"
    /\ r.status = 400
    /\ r.type \in {"validation_error", "http_exception"}

\* C4: a register whose valid email, username and password collide with no
\* stored user succeeds with 201 and adds exactly one user; a later register
\* whose email equals a stored email ignoring letter case, or whose username
\* equals a stored username, is refused with 400 and adds no user.
C4_RegisterOnceThenRefused ==
    [][/\ \A p \in Procs :
            (/\ RegisterInsert(p)
             /\ ~EmailTaken(reg[p].email)
             /\ ~UsernameTaken(reg[p].username))
            => /\ resp'.status = 201
               /\ \E u \in users' \ users :
                     /\ users' = users \cup {u}
                     /\ u.email = reg[p].email
                     /\ u.username = reg[p].username
                     /\ resp'.body = <<UserProfile(u)>>
       /\ \A p \in Procs, body \in RegisterBodies :
            (/\ RegisterEmail(p, body)
             /\ EmailStrOk(body.email)
             /\ EmailTaken(body.email))
            => RegisterRefused(resp') /\ users' = users /\ reg' = reg
       /\ \A p \in Procs :
            (RegisterUsername(p) /\ UsernameTaken(reg[p].username))
            => RegisterRefused(resp') /\ users' = users]_vars

\* C5: login with a stored user's email in any letter case and that user's
\* password succeeds with 200 and returns a token from which
\* extract_user_id_from_token yields that user's id, so that the token
\* authenticates as that user.
C5_LoginYieldsOwnToken ==
    [][\A body \in LoginBodies, u \in users :
          (/\ login(body, FALSE)
           /\ ToLower(u.email) = ToLower(body.email)
           /\ verify_password(body.password, u.password_hash))
          => /\ resp'.status = 200
             /\ LET token == resp'.body[1].access_token IN
                /\ extract_user_id_from_token(token, clock) = Some(u.id)
                /\ get_current_user(token).ok
                /\ get_current_user(token).id = u.id
             /\ resp'.body[1].user = UserProfile(u)]_vars

\* the one response login gives when it refuses the credentials
LoginRefusal ==
    [HttpError("login", 0, 0, 401, "Invalid email or password")
        EXCEPT !.token = NoToken]

\* C6: login with an email no user has and login with a stored email and a
\* wrong password are answered with one and the same response: status 401,
\* the same detail, the same body shape.
C6_LoginRefusalsIdentical ==
    [][\A body \in LoginBodies :
          (/\ login(body, FALSE)
           /\ LoginRequestOk(body)
           /\ \A u \in users :
                 ToLower(u.email) = ToLower(body.email) =>
                    ~verify_password(body.password, u.password_hash))
          => resp' = LoginRefusal]_vars

(***************************************************************************)
(* Properties of the life of a token (specification SpecToken).            *)
(***************************************************************************)
\* a step of a protected route of the token specification with this token
TokenRouteStep(token) ==
    \/ logout(token)
    \/ get_current_user_profile(token)
    \/ list_tasks(token)

\* the subject of an issued token is a stored user
SubjectStored(token) ==
    \E u \in users : u.id = ParseUuid(token.payload.sub)

\* the request was authenticated as the subject of the token
AuthenticatedAs(r, token) ==
    /\ r.status = 200
    /\ r.user = ParseUuid(token.payload.sub)

\* the first instant at which a token issued at time at is expired: at plus
\* the lifetime, cut down to a whole second
ExpiryInstant(at) == NumericDate(at + LifetimeTicks) * TicksPerSecond

C8_CreateAddsOwnTask ==
    [][/\ \A body \in CreateBodies :
            (/\ resp' # NoResponse
             /\ resp'.status = 201
             /\ create_task(resp'.token, body, MaxListed))
            => LET U == get_current_user(resp'.token).id
                   new == tasks'[Len(tasks')]
               IN
               /\ Len(tasks') = Len(tasks) + 1
               /\ SubSeq(tasks', 1, Len(tasks)) = tasks
               /\ \A i \in 1..Len(tasks) : tasks[i].id # new.id
               /\ new.user_id = U
               /\ new.title = Get(body, "title")
               /\ new.description = IF Has(body, "description")
                                    THEN Get(body, "description") ELSE Null
               /\ new.completed = (/\ Has(body, "completed")
                                   /\ Get(body, "completed") = JTrue)
               /\ resp'.body = <<new>>
               /\ resp'.task_id = new.id
       /\ \A i \in 1..Len(tasks), token \in RequestTokens :
            (/\ resp' # NoResponse
             /\ get_current_user(token).ok
             /\ get_current_user(token).id = tasks[i].user_id
             /\ get_task(token, tasks[i].id))
            => /\ resp'.status = 200
               /\ resp'.body = <<tasks[i]>>
               /\ tasks' = tasks]_vars

\* a task created with a description and completed true has just been
\* returned to its creator by get_task, a second task being stored
C8_Witness ==
    /\ resp.op = "get_task"
    /\ resp.status = 200
    /\ Len(tasks) = 2
    /\ \E i \in 1..Len(tasks) :
          /\ resp.body = <<tasks[i]>>
          /\ tasks[i].user_id = 1
          /\ tasks[i].user_id = resp.user
          /\ tasks[i].completed = TRUE
          /\ tasks[i].description = DescriptionD

\* C9: list_tasks called by authenticated user U returns exactly the tasks
\* whose user_id is U, each of them once and no task of another user, and
\* the empty list when U owns none.
C9_ListReturnsOwnTasks ==
    [][LET token == resp'.token
           U == get_current_user(token).id
           own == {i \in 1..Len(tasks) : tasks[i].user_id = U}
       IN
       (/\ resp' # NoResponse
        /\ get_current_user(token).ok
        /\ list_tasks(token))
       => /\ resp'.status = 200
          /\ resp'.type = "ok"
          /\ Len(resp'.body) = Cardinality(own)
          /\ Range(resp'.body) = {tasks[i] : i \in own}
          /\ own = {} => resp'.body = <<>>]_vars

\* a user who owns one of the two stored tasks has just been returned the
\* list of that one task
C9_Witness ==
    /\ resp.op = "list_tasks"
    /\ resp.status = 200
    /\ Len(resp.body) = 1
    /\ Len(tasks) = 2
    /\ tasks[1].user_id # tasks[2].user_id

\* position of a stored task in insertion order
InsertionIndex(t) == CHOOSE i \in 1..Len(tasks) : tasks[i].id = t.id

\* C10: list_tasks returns the caller's tasks in descending created_at
\* order, the most recently created first and the oldest last, and tasks
\* with equal created_at in insertion order.
C10_ListNewestFirstTiesByInsertion ==
    (resp.op = "list_tasks" /\ resp.status = 200) =>
        \A i, j \in 1..Len(resp.body) :
            i < j =>
                /\ resp.body[i].created_at >= resp.body[j].created_at
                /\ resp.body[i].created_at = resp.body[j].created_at =>
                      InsertionIndex(resp.body[i])
                          < InsertionIndex(resp.body[j])

(***************************************************************************)
(* Properties of the routes that change a task (specification Spec).       *)
(***************************************************************************)
\* the position in tasks of the task a response is about
RowOf(r) == CHOOSE i \in 1..Len(tasks) : tasks[i].id = r.task_id

\* every stored task but the i-th is left as it was, in place
OthersUnchanged(i) ==
    /\ Len(tasks') = Len(tasks)
    /\ \A j \in 1..Len(tasks) : j # i => tasks'[j] = tasks[j]

\* C11: an update_task of the owner that succeeds sets each of title and
\* description the body supplies to the supplied value and leaves the one
\* it does not supply, and completed, id, user_id and created_at, as they
\* were; the response carries the task as stored.
C11_UpdateSetsSuppliedFieldsOnly ==
    [][\A body \in UpdateBodies :
          (/\ resp' # NoResponse
           /\ resp'.op = "update_task"
           /\ resp'.status = 200
           /\ update_task(resp'.token, resp'.task_id, body))
          => LET i == RowOf(resp')
                 old == tasks[i]
                 new == tasks'[i]
             IN
             /\ old.user_id = resp'.user
             /\ new.title = IF Has(body, "title")
                            THEN Get(body, "title") ELSE old.title
             /\ new.description = IF Has(body, "description")
                                  THEN Get(body, "description")
                                  ELSE old.description
             /\ new.completed = old.completed
             /\ new.id = old.id
             /\ new.user_id = old.user_id
             /\ new.created_at = old.created_at
             /\ resp'.body = <<new>>
             /\ OthersUnchanged(i)]_vars

\* a title-only update has just succeeded on a task created without a
\* description and not completed: the description an earlier update gave it
\* is still there
C11_Witness ==
    /\ resp.op = "update_task"
    /\ resp.status = 200
    /\ \E i \in 1..Len(tasks) :
          /\ tasks[i].id = resp.task_id
          /\ tasks[i].title = TitleB
          /\ tasks[i].description = DescriptionD
          /\ ~tasks[i].completed

(***************************************************************************)
(* Properties of toggle (specification SpecToggle).                        *)
(***************************************************************************)
\* C12: a toggle of the owner that succeeds stores the negation of the
\* completed it found, the request carrying no state, and changes nothing
\* else of the task but updated_at; a toggle that finds the task as the
\* toggle before it left it stores the completed that toggle found.
C12_ToggleNegatesTwiceRestores ==
    [][(/\ resp' # NoResponse
        /\ resp'.op = "toggle"
        /\ resp'.status = 200
        /\ toggle_task_completion(resp'.token, resp'.task_id, TRUE))
       => LET i == RowOf(resp')
              old == tasks[i]
              new == tasks'[i]
          IN
          /\ old.user_id = resp'.user
          /\ new.completed = ~old.completed
          /\ [new EXCEPT !.completed = old.completed,
                         !.updated_at = old.updated_at] = old
          /\ resp'.body = <<new>>
          /\ OthersUnchanged(i)
          /\ (toggled # None /\ toggled[1].row = old)
                => new.completed = toggled[1].before]_vars

\* a second toggle has just succeeded on the task as the first left it, and
\* the task, created not completed, is not completed again
C12_Witness ==
    /\ resp.op = "toggle"
    /\ resp.status = 200
    /\ toggled # None
    /\ toggled[1].before
    /\ toggled[1].row.id = resp.task_id
    /\ ~resp.body[1].completed
    /\ \E i \in 1..Len(tasks) : tasks[i] = toggled[1].row

(***************************************************************************)
(* Properties of delete (specification SpecDelete).                        *)
(***************************************************************************)
\* a task with this id was stored once and is stored no more
Deleted(task_id) ==
    /\ task_id < nextTask
    /\ \A i \in 1..Len(tasks) : tasks[i].id # task_id

\* C13: a delete_task of the owner answered 204 removes the addressed task
\* and leaves every other stored task as it was, in place; from then on
\* get_task and delete_task on that id, by any authenticated user, answer
\* with the not-found error and change nothing.
C13_DeletedTaskIsNotFound ==
    [][LET token == resp'.token
           task_id == resp'.task_id
           auth == get_current_user(token)
       IN
       /\ (/\ resp' # NoResponse
           /\ resp'.op = "delete_task"
           /\ resp'.status = 204
           /\ delete_task(token, task_id))
          => /\ tasks[RowOf(resp')].user_id = resp'.user
             /\ tasks' = SelectSeq(tasks, LAMBDA t : t.id # task_id)
             /\ Len(tasks') = Len(tasks) - 1
             /\ resp'.body = <<>>
             /\ users' = users
       /\ (/\ resp' # NoResponse
           /\ auth.ok
           /\ Deleted(task_id)
           /\ get_task(token, task_id) \/ delete_task(token, task_id))
          => /\ NotFoundOutcome(resp')
             /\ store' = store]_vars

\* a second delete of a task has just been answered with the not-found
\* error, another task being still stored
C13_Witness ==
    /\ resp.op = "delete_task"
    /\ NotFoundOutcome(resp)
    /\ Deleted(resp.task_id)
    /\ tasks # <<>>

(***************************************************************************)
(* Properties of the timestamps (specifications Spec, SpecSystem).         *)
(***************************************************************************)
\* a step of update_task or of toggle that succeeds on the task of the
\* response
TaskWriteStep ==
    /\ resp' # NoResponse
    /\ resp'.status = 200
    /\ \/ /\ resp'.op = "update_task"
          /\ \E body \in UpdateBodies :
                update_task(resp'.token, resp'.task_id, body)
       \/ /\ resp'.op = "toggle"
          /\ toggle_task_completion(resp'.token, resp'.task_id, FALSE)

\* C14: every update_task and every toggle that succeeds, an update with an
\* empty body included, leaves the task with an updated_at strictly greater
\* than the one it had and with the created_at it had.
C14_UpdatedAtStrictlyIncreases ==
    [][TaskWriteStep
       => LET i == RowOf(resp') IN
          /\ tasks'[i].updated_at > tasks[i].updated_at
          /\ tasks'[i].created_at = tasks[i].created_at]_vars

C16_StoredTasksValid ==
    \A i \in 1..Len(tasks) :
        /\ tasks[i].title # Null
        /\ \E k \in 1..Len(tasks[i].title) :
              tasks[i].title[k] \notin Whitespace
        /\ Len(tasks[i].title) <= TITLE_MAX_LENGTH
        /\ \/ tasks[i].description = Null
           \/ Len(tasks[i].description) <= DESCRIPTION_MAX_LENGTH

\* an update with a null title has just been answered, the task it
\* addressed being stored
C16_Witness ==
    /\ resp.op = "update_task"
    /\ resp.status = 500
    /\ \E i \in 1..Len(tasks) : tasks[i].id = resp.task_id

\* the body carries a title that is no valid non-blank string of at most
\* 200 characters, or a description longer than 2000 characters
InvalidTaskBody(body) ==
    \/ Has(body, "title") /\ ~TitleOk(Get(body, "title"))
    \/ /\ Has(body, "description")
       /\ IsStr(Get(body, "description"))
       /\ Len(Get(body, "description")) > DESCRIPTION_MAX_LENGTH

\* the response is the validation error
ValidationOutcome(r) ==
    /\ r.status = 400
    /\ r.type = "validation_error"
    /\ r.body = <<>>

\* C17: a create_task or update_task of an authenticated user whose body
\* carries an invalid title (for update: any title sent that is no valid
\* non-blank string) or a description that is too long is answered with
\* the validation error 400, and the store is left as it was.
C17_InvalidBodyRejected ==
    [][LET token == resp'.token
           task_id == resp'.task_id
       IN
       (/\ resp' # NoResponse
        /\ get_current_user(token).ok
        /\ \/ \E body \in CreateBodies :
                 /\ InvalidTaskBody(body)
                 /\ create_task(token, body, MaxTasks)
           \/ \E body \in UpdateBodies :
                 /\ InvalidTaskBody(body)
                 /\ update_task(token, task_id, body))
       => /\ ValidationOutcome(resp')
          /\ store' = store]_vars

(***************************************************************************)
(* Properties of the error responses (specifications SpecGuard,            *)
(* SpecSystem).                                                            *)
(***************************************************************************)
\* the response is an error
IsError(r) == r.status >= 400

\* the body is a ProblemDetails object {type, title, status, detail,
\* instance} with one of the four types; the body of an HTTPException the
\* framework answers is {detail} alone
ProblemTypes ==
    {"validation_error", "not_found", "database_error", "internal_error"}
HasProblemShape(r) == r.type \in ProblemTypes

\* C18: every error response of every route, authentication and task routes
\* alike, has the ProblemDetails body with one of the four types.
C18_ErrorsHaveProblemShape == IsError(resp) => HasProblemShape(resp)

\* C19: a write that fails on a constraint of the store - the insert of
\* register on a unique index after a concurrent register committed first,
\* the update of a task on its not-null or check constraints - is answered
\* as a validation error 400.
C19_ConstraintFailureIsValidationError ==
    [][LET token == resp'.token
           task_id == resp'.task_id
           auth == get_current_user(token)
           found == TaskIndex(task_id, auth.id)
       IN
       (/\ resp' # NoResponse
        /\ \/ \E p \in Procs :
                 /\ ~UserInsertOk(reg[p].email, reg[p].username)
                 /\ RegisterInsert(p)
           \/ \E body \in SystemUpdateBodies :
                 /\ auth.ok
                 /\ TaskUpdateOk(body)
                 /\ found # {}
                 /\ \E i \in found : ~TaskRowOk(ApplyUpdate(tasks[i], body,
                                                            clock))
                 /\ update_task(token, task_id, body))
       => resp'.status = 400]_vars

\* the routes that write
MutatingOps ==
    {"register", "create_task", "update_task", "delete_task", "toggle"}

StoredTask(rows, id) == rows[CHOOSE i \in 1..Len(rows) : rows[i].id = id]

\* the fields of TaskUpdate the body of an update supplies
Supplied(body) == {f \in {"title", "description"} : Has(body, f)}

\* C21: of concurrent update_task requests of the owner on a task that
\* succeed, each leaves at its commit the values it supplies in the stored
\* task - so that the task ends as after the requests run one after the
\* other in commit order, the last commit winning - and each is answered
\* with the values it supplied.
C21_ConcurrentUpdatesLastCommitWins ==
    [][\A p \in Procs :
          req[p].op = "update_task" =>
             /\ (Commit(p) /\ req'[p].pc = "refresh")
                   => \A f \in Supplied(req[p].body) :
                         StoredTask(tasks', req[p].task_id)[f]
                            = Get(req[p].body, f)
             /\ (Refresh(p) /\ resp'.status = 200)
                   => \A f \in Supplied(req[p].body) :
                         resp'.body[1][f] = Get(req[p].body, f)]_vars

\* this id is the id of a stored task
IsStored(rows, id) == \E i \in 1..Len(rows) : rows[i].id = id

\* C27: of concurrent toggle requests of the owner on a task, each one that
\* commits negates the completed value stored at its commit - so that k
\* toggles answered 200 leave the initial value negated k times, none being
\* lost, and each is answered with a value other than the one it found
\* stored when it committed.
C27_NoToggleLost ==
    [][\A p \in Procs :
          (/\ req[p].op = "toggle"
           /\ Commit(p)
           /\ req'[p].pc = "refresh"
           /\ IsStored(tasks, req[p].task_id))
          => StoredTask(tasks', req[p].task_id).completed
                = ~StoredTask(tasks, req[p].task_id).completed]_vars

\* C28: of concurrent delete_task requests of the owner on a task, one is
\* answered 204 and every other one 404: a delete_task is answered 204 only
\* by the step that removes the task from the store.
C28_OneDeleteSucceeds ==
    [][\A p \in Procs :
          (/\ req[p].op = "delete_task"
           /\ Commit(p)
           /\ resp'.status = 204)
          => /\ IsStored(tasks, req[p].task_id)
             /\ ~IsStored(tasks', req[p].task_id)]_vars

\* the request of p is an update or a toggle that has read its task
StaleWriter(p) ==
    /\ req[p].op \in {"update_task", "toggle"}
    /\ req[p].pc \in {"commit", "refresh"}

\* C29: a task a delete_task has removed stays absent: an update_task or a
\* toggle that read the task before the delete committed, and commits or
\* refreshes after it, writes nothing to the store, and is answered with an
\* error, never with 200.
C29_DeletedTaskStaysDeleted ==
    [][/\ \A id \in 1..(nextTask - 1) :
            ~IsStored(tasks, id) => ~IsStored(tasks', id)
       /\ \A p \in Procs :
            (/\ StaleWriter(p)
             /\ ~IsStored(tasks, req[p].task_id)
             /\ Commit(p) \/ Refresh(p))
            => /\ tasks' = tasks
               /\ resp' # NoResponse => IsError(resp')]_vars

\* an update or a toggle of a task has just been answered with the
\* database error, the task being deleted: it had read the task, or its
\* answer would be 404
C29_Witness ==
    /\ resp.op \in {"update_task", "toggle"}
    /\ resp.status = 500
    /\ Deleted(resp.task_id)

(***************************************************************************)
(* Properties of the session pool (specification SpecPool).                *)
(***************************************************************************)
\* the requests that hold a session
Holding == {p \in Procs : req[p].pc \in {"lookup", "commit", "refresh"}}

PasswordsSent ==
    {b.password : b \in SystemRegisterBodies \cup SystemLoginBodies}

\* the object has a field that is named as a password is, or a text field
\* whose value is a password sent
ExposesPassword(x) ==
    \/ DOMAIN x \cap {"password", "password_hash", "hashed_password"} # {}
    \/ \E f \in DOMAIN x \cap {"email", "username", "title", "description"} :
          x[f] \in PasswordsSent

\* the objects of a response: those of its body, the user of a login
\* response, the claims of the token it issues
ResponseObjects(r) ==
    LET top == {r.body[i] : i \in 1..Len(r.body)} IN
    top
    \cup {x.user : x \in {y \in top : "user" \in DOMAIN y}}
    \cup {x.access_token.payload :
            x \in {y \in top : "access_token" \in DOMAIN y}}

\* C23: no response of register, login, me, logout or a task route, error
\* responses included, carries a password hash or a password: no object of
\* a response has a password field, and no text field of one is a password
\* a client sent.
C23_NoPasswordInResponses ==
    \A x \in ResponseObjects(resp) : ~ExposesPassword(x)

\* a login has just been answered with the token and the profile of a user
\* whose password hash is stored
C23_Witness ==
    /\ resp.op = "login"
    /\ resp.status = 200
    /\ \E u \in users :
          /\ resp.body[1].user.id = u.id
          /\ verify_password(PasswordGood, u.password_hash)

(***************************************************************************)
(* Properties of ownership (specification SpecOwner).                      *)
(***************************************************************************)
\* C24: the user_id of every stored task is the id of exactly one stored
\* user; and the deletion of a user removes the tasks that user owns and
\* leaves the tasks of the others as they were, in place.
C24_NoOrphanTask ==
    /\ [](\A i \in 1..Len(tasks) :
            Cardinality(UsersById(tasks[i].user_id)) = 1)
    /\ [][\A id \in 1..MaxUsers :
            DeleteUser(id)
            => tasks' = SelectSeq(tasks, LAMBDA t : t.user_id # id)]_vars

\* a user who owned a task is gone while the task of another user is
\* stored: the deletion took the one and left the other
C24_Witness ==
    /\ schema = "alembic"
    /\ Cardinality(users) = 1
    /\ Len(tasks) = 1
    /\ nextTask = 3
    /\ UsersById(tasks[1].user_id) = users

(***************************************************************************)
(* Properties of registration's checks (specification SpecAuth).           *)
(***************************************************************************)
\* C25: a register whose well-formed email equals a stored email ignoring
\* letter case is answered 400 "Email already registered", whether or not
\* its username is taken too; one that passed the email checks and whose
\* well-formed username is stored is answered 400 "Username already taken";
\* either ends the request with no user added.
C25_CollisionReportedByField ==
    [][/\ \A p \in Procs, body \in RegisterBodies :
            (/\ RegisterEmail(p, body)
             /\ RegisterRequestOk(body)
             /\ validate_email(NormalizeEmail(body.email))
             /\ EmailTaken(NormalizeEmail(body.email)))
            => /\ resp'.status = 400
               /\ resp'.detail = "Email already registered"
               /\ users' = users
               /\ reg'[p] = Idle
       /\ \A p \in Procs :
            (/\ RegisterUsername(p)
             /\ validate_username(reg[p].username)
             /\ UsernameTaken(reg[p].username))
            => /\ resp'.status = 400
               /\ resp'.detail = "Username already taken"
               /\ users' = users
               /\ reg'[p] = Idle]_vars

(***************************************************************************)
(* Properties of the validators (specification SpecValidate).              *)
(***************************************************************************)
\* s is in the language of ^[A-Za-z0-9._%+-]+@[A-Za-z0-9.-]+\.[A-Za-z]{2,}$
MatchesEmailPattern(s) ==
    \E at \in 2..Len(s) :
        /\ s[at] = "@"
        /\ AllIn(SubSeq(s, 1, at - 1), EmailLocalClass)
        /\ \E dot \in (at + 2)..(Len(s) - 2) :
              /\ s[dot] = "."
              /\ AllIn(SubSeq(s, at + 1, dot - 1), EmailDomainClass)
              /\ AllIn(SubSeq(s, dot + 1, Len(s)), Upper \cup Lower)

\* s is in the language of ^[A-Za-z0-9_]{3,30}$
MatchesUsernamePattern(s) ==
    /\ Len(s) \in USERNAME_MIN_LENGTH..USERNAME_MAX_LENGTH
    /\ AllIn(s, Upper \cup Lower \cup Digit \cup {"_"})

\* C26: validate_email returns true exactly for the strings of the email
\* pattern, and validate_username exactly for the strings of 3 to 30
\* letters, digits and underscores.
C26_ValidatorsMatchPatterns ==
    /\ checked.fn = "validate_email"
       => (checked.result <=> MatchesEmailPattern(checked.input))
    /\ checked.fn = "validate_username"
       => (checked.result <=> MatchesUsernamePattern(checked.input))

(***************************************************************************)
(* Properties of the frame of update (specification SpecPatch).            *)
(***************************************************************************)
\* the fields no update changes, and the keys of a body that name them
FrozenFields == {"id", "user_id", "created_at", "completed"}
CarriesFrozen(body) == \E f \in FrozenFields : Has(body, f)

\* the title and description the body supplies are values a task can hold
SuppliesStorable(body) ==
    /\ Has(body, "title") =>
          (Get(body, "title") # Null /\ TitleOk(Get(body, "title")))
    /\ Has(body, "description") => DescriptionOk(Get(body, "description"))

\* C30: update_task changes the id, user_id, created_at and completed of no
\* stored task, whatever its body; and an update of the owner whose body
\* carries keys of these names, its title and description being storable,
\* is answered 200 with the four fields as they were.
C30_UpdateKeepsFrozenFields ==
    [][\A token \in IssuedTokens, body \in PatchBodies :
          update_task(token, RaceTask.id, body)
          => /\ Len(tasks') = Len(tasks)
             /\ \A i \in 1..Len(tasks), f \in FrozenFields :
                   tasks'[i][f] = tasks[i][f]
             /\ (/\ get_current_user(token).ok
                 /\ get_current_user(token).id = RaceTask.user_id
                 /\ CarriesFrozen(body)
                 /\ SuppliesStorable(body))
                => /\ resp'.status = 200
                   /\ \A f \in FrozenFields :
                         resp'.body[1][f] = RaceTask[f]]_vars

\* the update whose body carries a description and the four keys has been
\* answered 200: the description is stored, the four fields are as before
C30_Witness ==
    /\ resp.op = "update_task"
    /\ resp.status = 200
    /\ resp.body[1].description = DescriptionD
    /\ \A f \in FrozenFields : tasks[1][f] = RaceTask[f]
====
